---- MODULE Spec2Model ----
(***************************************************************************)
(* LAPD calls-for-service pipeline: the schema normalizer                  *)
(* (process_lapd_data.clean_and_process_data, LAPDDataUpdater.clean_data), *)
(* the merge/dedup coordinator (LAPDDataUpdater.process_and_merge_data),   *)
(* and the two programs that persist the canonical table                   *)
(* (process_lapd_data.main, LAPDDataUpdater.update).                       *)
(*                                                                         *)
(* A pandas DataFrame is [cols, rows]: the set of column labels and the    *)
(* sequence of rows; a row maps every known label to a cell and holds NULL *)
(* under the labels the frame does not carry.  A cell is a tagged value    *)
(* [t, v]: text, a date/time text, a parsed timestamp, a number or NULL    *)
(* (None / NaN / NaT).                                                     *)
(***************************************************************************)
EXTENDS Integers, Sequences, FiniteSets, TLC

VARIABLES
    parquet,          \* lapd_calls_for_service.parquet: a frame, or NoFile
    sqlite,           \* lapd_calls_for_service.db: [table, indexes], or NoFile
    backups,          \* backups/: sequence of [parquet, sqlite], oldest first
    persisted,        \* history: the table the last export wrote, or NoFile
    remote,           \* what the API serves for each dataset, if fixed
    prog,             \* the program of the last run started
    pc,               \* position of the running program, "idle" between runs
    force,            \* update(force)
    is_recent,        \* second component of check_for_updates()
    updated_at,       \* what check_for_updates() got from the catalog
    datasets,         \* main: the catalog's datasets still to fetch
    all_dataframes,   \* main: frames fetched so far
    current_data,     \* update: fetch_current_dataset()
    historical_data,  \* update: load_historical_data(), NoData for None
    current_df,       \* update: the cleaned fresh frame
    final_df,         \* the table about to be exported
    outcome,          \* how the last run ended
    runs,             \* number of runs started
    pre,              \* the persisted files when the last run started
    batch,            \* normalizer harness: the raw input frame
    cleaned,          \* clean_and_process_data(batch)
    recleaned,        \* clean_and_process_data(cleaned)
    updated,          \* LAPDDataUpdater.clean_data(batch)
    reported,         \* the "Removed N records with invalid dates" count
    stage,            \* normalizer harness position
    self_df,          \* analyzer: self.df, NoFrame for None
    fireworks_df,     \* analyzer: self.fireworks_df, NoFrame for None
    holiday_analysis, \* analyzer: what analyze_holiday_patterns returned
    analyses,         \* analyzer: the analyses run so far, in order
    step,             \* analyzer: position in run_full_analysis
    page_offset,      \* fetch loop: offset
    all_data,         \* fetch loop: the records accumulated
    requested,        \* fetch loop: the $offset of each request sent, in order
    response,         \* fetch loop: what the last request came back with
    fetching          \* fetch loop: position

vars == <<parquet, sqlite, backups, persisted, remote, prog, pc, force, is_recent, updated_at, datasets,
          all_dataframes, current_data, historical_data, current_df, final_df,
          outcome, runs, pre, batch, cleaned, recleaned, updated, reported, stage,
          self_df, fireworks_df, holiday_analysis, analyses, step,
          page_offset, all_data, requested, response, fetching>>

fsVars == <<parquet, sqlite, backups, persisted>>
runVars == <<prog, pc, force, is_recent, updated_at, datasets, all_dataframes, current_data,
             historical_data, current_df, final_df, outcome, runs, pre>>
anaVars == <<self_df, fireworks_df, holiday_analysis, analyses, step>>
fetchVars == <<page_offset, all_data, requested, response, fetching>>
normVars == <<batch, cleaned, recleaned, updated, reported, stage, remote, anaVars,
              fetchVars>>

----------------------------------------------------------------------------
(* Bounds *)

\* most records one fetch returns
MaxBatch == 2
\* most runs (main or update) in one behaviour
MaxRuns == 2

----------------------------------------------------------------------------
(* Cells *)

NULL == [t |-> "null", v |-> <<>>]
Str(s) == [t |-> "str", v |-> s]
Num(n) == [t |-> "num", v |-> <<n>>]
DateText(y, m, d) == [t |-> "datetext", v |-> <<y, m, d>>]
TimeText(h, m, s) == [t |-> "timetext", v |-> <<h, m, s>>]
Timestamp(y, m, d) == [t |-> "datetime", v |-> <<y, m, d>>]

IsNull(c) == c.t = "null"

IsLeap(y) == (y % 4 = 0 /\ y % 100 # 0) \/ y % 400 = 0

DaysInMonth(y, m) ==
    IF m = 2 THEN (IF IsLeap(y) THEN 29 ELSE 28)
    ELSE IF m \in {4, 6, 9, 11} THEN 30 ELSE 31

ValidDate(y, m, d) == m \in 1..12 /\ d >= 1 /\ d <= DaysInMonth(y, m)

\* pd.to_datetime(x, errors='coerce') on one cell: a timestamp stays, a date
\* text is parsed, everything else (None, other text, an impossible date)
\* becomes NaT.
ToDatetime(c) ==
    IF c.t = "datetime" THEN c
    ELSE IF c.t = "datetext" /\ ValidDate(c.v[1], c.v[2], c.v[3])
         THEN Timestamp(c.v[1], c.v[2], c.v[3])
         ELSE NULL

\* pd.to_datetime(x, format='%H:%M:%S', errors='coerce').dt.hour on one cell
HourOf(c) ==
    IF c.t = "timetext" /\ c.v[1] \in 0..23 /\ c.v[2] \in 0..59 /\ c.v[3] \in 0..59
    THEN Num(c.v[1])
    ELSE NULL

\* .dt.year, .dt.month
YearOf(c) == IF c.t = "datetime" THEN Num(c.v[1]) ELSE NULL
MonthOf(c) == IF c.t = "datetime" THEN Num(c.v[2]) ELSE NULL

DayNames == <<"Sunday", "Monday", "Tuesday", "Wednesday", "Thursday",
              "Friday", "Saturday">>
MonthOffset == <<0, 3, 2, 5, 0, 3, 5, 1, 4, 6, 2, 4>>

Weekday(y, m, d) ==
    LET yy == IF m < 3 THEN y - 1 ELSE y
    IN (yy + (yy \div 4) - (yy \div 100) + (yy \div 400) + MonthOffset[m] + d) % 7

\* .dt.day_name()
DayNameOf(c) ==
    IF c.t = "datetime"
    THEN Str(<<DayNames[Weekday(c.v[1], c.v[2], c.v[3]) + 1]>>)
    ELSE NULL

RECURSIVE LStrip(_)
LStrip(s) == IF s # <<>> /\ Head(s) = " " THEN LStrip(Tail(s)) ELSE s

RECURSIVE RStrip(_)
RStrip(s) ==
    IF s # <<>> /\ s[Len(s)] = " " THEN RStrip(SubSeq(s, 1, Len(s) - 1)) ELSE s

\* Series.str.strip() on one cell: text loses leading and trailing
\* whitespace, a non-text element becomes NaN.
StrStrip(c) == IF c.t = "str" THEN Str(RStrip(LStrip(c.v))) ELSE NULL

----------------------------------------------------------------------------
(* Frames *)

ColNames ==
    {"incident_number", "date_rptd", "date_occ", "time_occ", "report_date",
     "occurrence_date", "occurrence_time", "dispatch_date", "dispatch_time",
     "call_type_text", "call_type_description", "call_type", "call_type_code",
     "area_occ", "source_dataset", "source_year", "primary_date", "year",
     "month", "day_of_week", "hour", "occurrence_time_hour",
     "dispatch_time_hour"}

EmptyRow == [c \in ColNames |-> NULL]

Frame(cols, rows) == [cols |-> cols, rows |-> rows]

\* The element-wise conversions the cleaners apply to a column
ApplyCell(fn, c) ==
    CASE fn = "copy" -> c
      [] fn = "to_datetime" -> ToDatetime(c)
      [] fn = "hour" -> HourOf(c)
      [] fn = "year" -> YearOf(c)
      [] fn = "month" -> MonthOf(c)
      [] fn = "day_name" -> DayNameOf(c)
      [] fn = "strip" -> StrStrip(c)
      [] fn = "NaT" -> NULL

\* df[dst] = fn(df[src])
SetColumn(df, dst, fn, src) ==
    Frame(df.cols \cup {dst},
          [i \in 1..Len(df.rows) |->
              LET r == df.rows[i] IN [r EXCEPT ![dst] = ApplyCell(fn, r[src])]])

\* df.rename(columns={old: new}) where old is a column and new is not
RenameColumn(df, old, new) ==
    IF old \in df.cols /\ old # new
    THEN Frame((df.cols \ {old}) \cup {new},
               [i \in 1..Len(df.rows) |->
                   LET r == df.rows[i] IN [r EXCEPT ![new] = r[old], ![old] = NULL]])
    ELSE df

RECURSIVE NotNullRows(_, _)
NotNullRows(rows, c) ==
    IF rows = <<>> THEN <<>>
    ELSE IF IsNull(Head(rows)[c]) THEN NotNullRows(Tail(rows), c)
         ELSE <<Head(rows)>> \o NotNullRows(Tail(rows), c)

KeepNa(df, c) == df

\* df.dropna(subset=[c])
DropNa(df, c) == Frame(df.cols, NotNullRows(df.rows, c))

\* pd.concat([a, b], ignore_index=True, sort=False)
Concat(a, b) == Frame(a.cols \cup b.cols, a.rows \o b.rows)

----------------------------------------------------------------------------
(* Schema normalizer: process_lapd_data.clean_and_process_data *)

\* column_mapping of clean_and_process_data, in declaration order
column_mapping ==
    << <<"date_rptd", "report_date">>, <<"date_occ", "occurrence_date">>,
       <<"time_occ", "occurrence_time">>, <<"dispatch_date", "dispatch_date">>,
       <<"dispatch_time", "dispatch_time">>, <<"call_type_text", "call_type">>,
       <<"call_type_description", "call_type">> >>

\* column_mapping of LAPDDataUpdater.clean_data
updater_column_mapping == SubSeq(column_mapping, 1, 5)

CallTypeSources == {"call_type_text", "call_type_description"}

date_columns == <<"report_date", "occurrence_date", "dispatch_date">>
time_columns == <<"occurrence_time", "dispatch_time">>

PreferDescription(df) ==
    IF "call_type_description" \in df.cols
    THEN SetColumn(df, "call_type", "copy", "call_type_description")
    ELSE IF "call_type_text" \in df.cols
         THEN SetColumn(df, "call_type", "copy", "call_type_text")
         ELSE df

\* "If both call_type_text and call_type_description exist, prefer
\* call_type_text"
ResolveCallType(df) ==
    IF "call_type_text" \in df.cols
    THEN SetColumn(df, "call_type", "copy", "call_type_text")
    ELSE IF "call_type_description" \in df.cols
         THEN SetColumn(df, "call_type", "copy", "call_type_description")
         ELSE df

\* The labels a rename pass over `mapping` leaves duplicated: the old name
\* is renamed onto a label the frame already carries.
DuplicatedLabels(df, mapping, skip) ==
    {mapping[i][2] : i \in {j \in 1..Len(mapping) :
        /\ mapping[j][1] # mapping[j][2]
        /\ mapping[j][1] \notin skip
        /\ mapping[j][1] \in df.cols
        /\ mapping[j][2] \in df.cols}}

\* for old, new in column_mapping.items(): rename unless old is one of the
\* two call-type sources
RECURSIVE RenamePass(_, _, _)
RenamePass(df, mapping, skip) ==
    IF mapping = <<>> THEN df
    ELSE RenamePass(
            IF Head(mapping)[1] \in skip THEN df
            ELSE RenameColumn(df, Head(mapping)[1], Head(mapping)[2]),
            Tail(mapping), skip)

\* for col in date_columns: if col in df.columns: df[col] = to_datetime(...)
RECURSIVE ParseDates(_, _)
ParseDates(df, columns) ==
    IF columns = <<>> THEN df
    ELSE ParseDates(
            IF Head(columns) \in df.cols
            THEN SetColumn(df, Head(columns), "to_datetime", Head(columns))
            ELSE df,
            Tail(columns))

ReportDateFirst(df) ==
    IF "report_date" \in df.cols
    THEN SetColumn(df, "primary_date", "copy", "report_date")
    ELSE IF "occurrence_date" \in df.cols
         THEN SetColumn(df, "primary_date", "copy", "occurrence_date")
         ELSE IF "dispatch_date" \in df.cols
              THEN SetColumn(df, "primary_date", "copy", "dispatch_date")
              ELSE SetColumn(df, "primary_date", "NaT", "primary_date")

\* primary date: occurrence_date, then report_date, then dispatch_date, by
\* column presence; NaT when the frame has none of them
SetPrimaryDate(df) ==
    IF "occurrence_date" \in df.cols
    THEN SetColumn(df, "primary_date", "copy", "occurrence_date")
    ELSE IF "report_date" \in df.cols
         THEN SetColumn(df, "primary_date", "copy", "report_date")
         ELSE IF "dispatch_date" \in df.cols
              THEN SetColumn(df, "primary_date", "copy", "dispatch_date")
              ELSE SetColumn(df, "primary_date", "NaT", "primary_date")

\* year, month, day_of_week from primary_date
SetTimeComponents(df) ==
    SetColumn(SetColumn(SetColumn(df, "year", "year", "primary_date"),
                        "month", "month", "primary_date"),
              "day_of_week", "day_name", "primary_date")

\* df[c].isna().all()
AllNa(df, c) == \A i \in 1..Len(df.rows) : IsNull(df.rows[i][c])

HourColumn(col) ==
    IF col = "occurrence_time" THEN "occurrence_time_hour" ELSE "dispatch_time_hour"

\* for col in time_columns: df[col_hour] = hour of the parsed time; hour takes
\* it when hour holds no value in any row of the frame
RECURSIVE ProcessTimes(_, _)
ProcessTimes(df, columns) ==
    IF columns = <<>> THEN df
    ELSE LET col == Head(columns)
             parsed == SetColumn(df, HourColumn(col), "hour", col)
         IN ProcessTimes(
                IF col \notin df.cols THEN df
                ELSE IF AllNa(parsed, "hour")
                     THEN SetColumn(parsed, "hour", "copy", HourColumn(col))
                     ELSE parsed,
                Tail(columns))

\* if c in df.columns: df[c] = df[c].str.strip()
StripColumn(df, c) == IF c \in df.cols THEN SetColumn(df, c, "strip", c) ELSE df

\* The frame clean_and_process_data holds just before "Remove rows with no
\* valid date", for a given order of the rename map
DerivedWith(df, mapping) ==
    LET renamed == RenamePass(ResolveCallType(df), mapping, CallTypeSources)
        dated == SetTimeComponents(SetPrimaryDate(ParseDates(renamed, date_columns)))
        timed == ProcessTimes(SetColumn(dated, "hour", "NaT", "hour"), time_columns)
    IN StripColumn(StripColumn(timed, "call_type"), "area_occ")

Derived(df) == DerivedWith(df, column_mapping)

\* pd.to_datetime(df[col]) raises when the rename pass left a date label
\* duplicated (df[col] is then a frame, not a column)
CleanRaises(df) ==
    \E i \in 1..Len(date_columns) :
        date_columns[i] \in DuplicatedLabels(df, column_mapping, CallTypeSources)

\* clean_and_process_data(df): the cleaned frame and the count it prints
clean_and_process_data(df) ==
    LET d == Derived(df)
        kept == DropNa(d, "primary_date")
    IN [df |-> kept, removed |-> Len(d.rows) - Len(kept.rows)]

----------------------------------------------------------------------------
(* LAPDDataUpdater.clean_data *)

\* The frame clean_data holds just before "Remove invalid dates"
UpdaterDerived(df) ==
    LET renamed == RenamePass(df, updater_column_mapping, {})
        dated == SetTimeComponents(SetPrimaryDate(ParseDates(renamed, date_columns)))
    IN StripColumn(StripColumn(dated, "call_type_text"), "area_occ")

clean_data(df) == DropNa(UpdaterDerived(df), "primary_date")

CleanDataRaises(df) ==
    \E i \in 1..Len(date_columns) :
        date_columns[i] \in DuplicatedLabels(df, updater_column_mapping, {})

----------------------------------------------------------------------------
(* Raw input: what a fetch can return *)

\* Two raw values per field: what the API sends is text (or nothing)
CellChoices(c) ==
    CASE c \in {"date_occ", "occurrence_date"} ->
            <<DateText(2023, 6, 30), DateText(2023, 2, 30)>>
      [] c \in {"date_rptd", "report_date"} ->
            <<DateText(2023, 7, 1), Str(<<"n/a">>)>>
      [] c = "dispatch_date" -> <<DateText(2024, 7, 4), DateText(2024, 13, 1)>>
      [] c \in {"time_occ", "occurrence_time"} ->
            <<TimeText(5, 0, 0), TimeText(25, 0, 0)>>
      [] c = "dispatch_time" -> <<TimeText(22, 30, 0), NULL>>
      [] c = "call_type_text" -> <<Str(<<" ", "FIREWORKS", " ">>), NULL>>
      [] c = "call_type_description" -> <<Str(<<"OTHER", " ">>), NULL>>
      [] c = "area_occ" -> <<Str(<<" ", "Hollywood">>), Str(<<"Central">>)>>
      [] OTHER -> <<NULL, NULL>>

\* The column sets of the raw frames the normalizer is exercised on.  No
\* shape carries both time_occ and occurrence_time.
Shapes ==
    { {"date_occ", "date_rptd", "dispatch_date"},
      {"occurrence_date", "report_date", "dispatch_date"},
      {"date_rptd", "dispatch_date"},
      {"dispatch_date", "dispatch_time", "call_type_text", "call_type_description"},
      {"dispatch_date", "call_type_description", "area_occ"},
      {"occurrence_date", "time_occ", "dispatch_time"},
      {"date_occ", "time_occ", "call_type_text"},
      {"date_occ", "occurrence_date"},
      {"area_occ"} }

RawRows(cols) ==
    {[c \in ColNames |-> IF c \in cols THEN CellChoices(c)[f[c]] ELSE NULL] :
        f \in [cols -> 1..2]}

RawBatches(cols) == UNION {[1..n -> RawRows(cols)] : n \in 1..MaxBatch}

NoFrame == Frame({}, <<>>)
NoFile == [cols |-> {"(no file)"}, rows |-> <<>>]
NoData == [cols |-> {"(None)"}, rows |-> <<>>]
NoDb == [table |-> NoFile, indexes |-> {}]

\* The columns of the "LAPD Calls for Service" datasets
LAPDCols ==
    {"incident_number", "area_occ", "dispatch_date", "dispatch_time",
     "call_type_code", "call_type_text"}

Keys == {Str(<<"X1">>), Str(<<"X2">>), NULL}
Dates == {DateText(2023, 12, 31), DateText(2024, 7, 4), DateText(2024, 13, 1)}

LAPDRow(k, d) ==
    [EmptyRow EXCEPT !["incident_number"] = k, !["dispatch_date"] = d,
                     !["dispatch_time"] = TimeText(22, 30, 0),
                     !["area_occ"] = Str(<<"Hollywood", " ">>),
                     !["call_type_code"] = Str(<<"507F">>),
                     !["call_type_text"] = Str(<<"FIREWORKS", " ">>)]

LAPDRows == {LAPDRow(k, d) : k \in Keys, d \in Dates}

\* What one paginated fetch can return: nothing, up to MaxBatch records of
\* the dataset, or a record of a dataset that has no incident_number field
FetchResults ==
    {NoFrame}
    \cup {Frame(LAPDCols, rows) :
            rows \in UNION {[1..n -> LAPDRows] : n \in 1..MaxBatch}}
    \cup {Frame(LAPDCols \ {"incident_number"},
                <<LAPDRow(NULL, DateText(2023, 12, 31))>>)}

\* get_lapd_datasets(): name, endpoint and year of each dataset
Catalog ==
    { <<[name |-> "LAPD Calls for Service 2023", year |-> 2023]>>,
      <<[name |-> "LAPD Calls for Service 2024 to Present", year |-> 2024]>> }

\* The two vintages of the end-to-end scenario, oldest first
V2023 == [name |-> "LAPD Calls for Service 2023", year |-> 2023]
V2024 == [name |-> "LAPD Calls for Service 2024 to Present", year |-> 2024]

AKeys == <<Str(<<"A1">>), Str(<<"A2">>), Str(<<"A3">>)>>

\* What the portal serves in the scenario: A, three records of 2023 of which
\* record `bad` has an unparseable date, and B, two records of 2024 of which
\* record `at` carries the incident_number of record `shared` of A
ScenarioRemote(bad, shared, at) ==
    [A |-> Frame(LAPDCols,
                 [i \in 1..3 |->
                     LAPDRow(AKeys[i], IF i = bad THEN DateText(2023, 2, 30)
                                       ELSE DateText(2023, 12, 31))]),
     B |-> Frame(LAPDCols,
                 [j \in 1..2 |->
                     LAPDRow(IF j = at THEN AKeys[shared] ELSE Str(<<"B1">>),
                             DateText(2024, 7, 4))])]

\* The orders in which the catalog search can list the two datasets
CatalogResults == {<<V2023, V2024>>, <<V2024, V2023>>}

Unsorted(results) == results

\* datasets.sort(key=year): ascending, equal years in their listed order
RECURSIVE SortByYear(_)
SortByYear(results) ==
    IF results = <<>> THEN <<>>
    ELSE LET rest == SortByYear(Tail(results))
             before == SelectSeq(rest, LAMBDA d : d.year < Head(results).year)
             after == SelectSeq(rest, LAMBDA d : d.year >= Head(results).year)
         IN before \o <<Head(results)>> \o after

\* get_lapd_datasets(): the calls-for-service datasets of the catalog search,
\* sorted by year
get_lapd_datasets(results) == SortByYear(results)

----------------------------------------------------------------------------
(* Paginated fetch: fetch_dataset and fetch_current_dataset *)

\* $limit of one request (50000 in the source), scaled down
batch_size == 2

\* The records the fetch loop accumulates from request number n on, when the
\* dataset holds `rows` and request number `fail` raises RequestException
\* (0: none does).  The loop ends at the first empty page or at the failure,
\* and what was accumulated is returned either way.
RECURSIVE Paginate(_, _, _, _)
Paginate(rows, offset, n, fail) ==
    IF n = fail THEN <<>>
    ELSE LET last == IF offset + batch_size < Len(rows)
                     THEN offset + batch_size ELSE Len(rows)
             batch_data == SubSeq(rows, offset + 1, last)
         IN IF batch_data = <<>> THEN <<>>
            ELSE batch_data \o Paginate(rows, offset + batch_size, n + 1, fail)

fetch_dataset(rows, fail) == Paginate(rows, 0, 1, fail)

fetch_current_dataset(rows, fail) == Paginate(rows, 0, 1, fail)

\* pd.DataFrame(data): the columns are the keys of the records
DataFrame(cols, data) == Frame(IF data = <<>> THEN {} ELSE cols, data)

\* The portal of the paginated runs: a 2023 and a 2024 dataset, each with its
\* columns, its records and the request that fails when main fetches it, and
\* the request that fails when update fetches the 2024 dataset
PortalShapes2023 ==
    { LAPDCols,
      {"incident_number", "date_rptd", "call_type_description"},
      {"incident_number", "dispatch_date", "call_type_description"},
      {"incident_number", "occurrence_date", "area_occ"} }
PortalShapes2024 ==
    { LAPDCols,
      {"incident_number", "date_occ", "call_type_text", "area_occ"} }

DateFields ==
    {"date_rptd", "report_date", "date_occ", "occurrence_date", "dispatch_date"}

PortalRow(cols, k, d) ==
    [c \in ColNames |->
        IF c \notin cols THEN NULL
        ELSE IF c = "incident_number" THEN k
        ELSE IF c \in DateFields THEN d
        ELSE IF c = "call_type_description" THEN Str(<<"OTHER", " ">>)
        ELSE LAPDRow(k, d)[c]]

BKeys == <<Str(<<"B1">>), Str(<<"B2">>)>>

\* n records of 2023, the second with an unparseable date when bad is set
Rows2023(cols, n, bad) ==
    [i \in 1..n |->
        PortalRow(cols, AKeys[i],
                  IF bad /\ i = 2 THEN DateText(2023, 2, 30)
                  ELSE DateText(2023, 12, 31))]

\* m records of 2024, the first with the key of the first 2023 record when
\* overlap is set
Rows2024(cols, m, overlap) ==
    [j \in 1..m |->
        PortalRow(cols, IF overlap /\ j = 1 THEN AKeys[1] ELSE BKeys[j],
                  DateText(2024, 7, 4))]

FailChoices == 0..2

Portals ==
    {[A |-> [cols |-> ca, rows |-> Rows2023(ca, n, bad), fail |-> fa],
      B |-> [cols |-> cb, rows |-> Rows2024(cb, m, overlap), fail |-> fb],
      fail |-> fu] :
        ca \in PortalShapes2023, n \in 0..Len(AKeys), bad \in BOOLEAN,
        cb \in PortalShapes2024, m \in 0..Len(BKeys), overlap \in BOOLEAN,
        fa \in FailChoices, fb \in FailChoices, fu \in FailChoices}

----------------------------------------------------------------------------
(* Merge/dedup coordinator *)

\* df['source_dataset'] = name; df['source_year'] = year
WithSource(df, name, year) ==
    Frame(df.cols \cup {"source_dataset", "source_year"},
          [i \in 1..Len(df.rows) |->
              [df.rows[i] EXCEPT !["source_dataset"] = Str(<<name>>),
                                 !["source_year"] = Num(year)]])

\* the vintage boundary of load_historical_data
BoundaryYear == 2024

RECURSIVE RowsFrom(_, _)
RowsFrom(rows, y) ==
    IF rows = <<>> THEN <<>>
    ELSE IF Head(rows)["year"].t = "num" /\ Head(rows)["year"].v[1] >= y
         THEN <<Head(rows)>> \o RowsFrom(Tail(rows), y)
         ELSE RowsFrom(Tail(rows), y)

RECURSIVE RowsBefore(_, _)
RowsBefore(rows, y) ==
    IF rows = <<>> THEN <<>>
    ELSE IF Head(rows)["year"].t = "num" /\ Head(rows)["year"].v[1] < y
         THEN <<Head(rows)>> \o RowsBefore(Tail(rows), y)
         ELSE RowsBefore(Tail(rows), y)

\* the entries of backups/ that hold a .parquet file
ParquetBackups == SelectSeq(backups, LAMBDA b : b.parquet # NoFile)

LoadOldestBackup ==
    IF ParquetBackups = <<>> THEN NoData
    ELSE LET df == ParquetBackups[1].parquet
         IN Frame(df.cols, RowsBefore(df.rows, BoundaryYear))

\* load_historical_data(): the newest parquet backup without its 2024+
\* rows, None when there is no backup
load_historical_data ==
    IF ParquetBackups = <<>> THEN NoData
    ELSE LET df == ParquetBackups[Len(ParquetBackups)].parquet
         IN Frame(df.cols, RowsBefore(df.rows, BoundaryYear))

\* df.drop_duplicates(subset=[c], keep='last'): a row goes when a later row
\* holds the same value under c (missing values count as equal)
RECURSIVE KeepFirst(_, _)
KeepFirst(rows, c) ==
    IF rows = <<>> THEN <<>>
    ELSE IF \E j \in 1..(Len(rows) - 1) : rows[j][c] = rows[Len(rows)][c]
         THEN KeepFirst(SubSeq(rows, 1, Len(rows) - 1), c)
         ELSE KeepFirst(SubSeq(rows, 1, Len(rows) - 1), c) \o <<rows[Len(rows)]>>

RECURSIVE KeepLast(_, _)
KeepLast(rows, c) ==
    IF rows = <<>> THEN <<>>
    ELSE IF \E j \in 2..Len(rows) : rows[j][c] = Head(rows)[c]
         THEN KeepLast(Tail(rows), c)
         ELSE <<Head(rows)>> \o KeepLast(Tail(rows), c)

KeepDuplicates(df, c) == df

drop_duplicates(df, c) == Frame(df.cols, KeepLast(df.rows, c))

\* current_df of process_and_merge_data
CurrentFrame(data) ==
    clean_data(WithSource(data, "LAPD Calls for Service 2024 to Present", 2024))

\* final_df of process_and_merge_data before the duplicates are removed
Merged(data, hist) ==
    IF hist # NoData THEN Concat(hist, CurrentFrame(data)) ELSE CurrentFrame(data)

\* clean_data raises as the full build's cleaner does; drop_duplicates raises
\* KeyError when no frame carries incident_number
MergeRaises(data, hist) ==
    \/ CleanDataRaises(data)
    \/ "incident_number" \notin Merged(data, hist).cols

process_and_merge_data(data, hist) ==
    drop_duplicates(Merged(data, hist), "incident_number")

RECURSIVE ConcatAll(_)
ConcatAll(frames) ==
    IF frames = <<>> THEN NoFrame
    ELSE Concat(Head(frames), ConcatAll(Tail(frames)))

\* The indexes export creates, in order; CREATE INDEX raises on a column the
\* table does not have and the later ones are not created
RECURSIVE CreateIndexes(_, _)
CreateIndexes(cols, columns) ==
    IF columns = <<>> \/ Head(columns) \notin cols THEN {}
    ELSE {Head(columns)} \cup CreateIndexes(cols, Tail(columns))

updater_index_columns == <<"primary_date", "year", "call_type_text", "area_occ">>
main_index_columns == <<"primary_date", "year", "call_type", "area_occ">>

----------------------------------------------------------------------------
(* check_for_updates *)

\* "Consider recent if < 7 days"
RecentDays == 7

\* What the catalog request can come to: an exception, no results, or a
\* dataset whose updatedAt lies `days` days back
NoCheck == [status |-> "none", days |-> 0]
DayChoices == {0, RecentDays - 1, RecentDays, RecentDays + 1}
CheckResults ==
    {[status |-> "error", days |-> 0], [status |-> "no results", days |-> 0]}
    \cup {[status |-> "found", days |-> d] : d \in DayChoices}

AlwaysRecent(checked) == TRUE

\* the second component of what check_for_updates() returns
check_for_updates(checked) ==
    checked.status = "found" /\ checked.days < RecentDays

----------------------------------------------------------------------------
(* The persisted files and the two programs *)

InitFiles == parquet = NoFile /\ sqlite = NoDb /\ backups = <<>> /\ persisted = NoFile

InitRun ==
    /\ prog = "none" /\ pc = "idle" /\ force = FALSE /\ is_recent = FALSE
    /\ updated_at = NoCheck
    /\ datasets = <<>> /\ all_dataframes = <<>>
    /\ current_data = NoFrame /\ historical_data = NoData
    /\ current_df = NoFrame /\ final_df = NoFrame
    /\ outcome = "none" /\ runs = 0
    /\ pre = [parquet |-> NoFile, sqlite |-> NoDb]

InitNorm ==
    /\ batch = NoFrame /\ cleaned = NoFrame /\ recleaned = NoFrame
    /\ updated = NoFrame /\ reported = 0 /\ stage = "off"
    /\ remote = <<>>

\* FireworksAnalyzer.__init__
InitAnalyzer ==
    /\ self_df = NoFrame /\ fireworks_df = NoFrame
    /\ holiday_analysis = <<>> /\ analyses = <<>> /\ step = "off"

\* no fetch loop is running
InitFetchLoop ==
    /\ page_offset = 0 /\ all_data = <<>> /\ requested = <<>>
    /\ response = [status |-> "none", batch_data |-> <<>>] /\ fetching = "off"

----------------------------------------------------------------------------
(* LAPDDataUpdater.update *)

\* The locals of a run are gone once it returns
Return(how) ==
    /\ pc' = "idle" /\ outcome' = how /\ UNCHANGED prog
    /\ force' = FALSE /\ is_recent' = FALSE /\ updated_at' = NoCheck
    /\ datasets' = <<>> /\ all_dataframes' = <<>>
    /\ current_data' = NoFrame /\ historical_data' = NoData
    /\ current_df' = NoFrame /\ final_df' = NoFrame

\* update(force) is called; check_for_updates() answers
UpdateBegin(f, checked) ==
    /\ stage = "off" /\ pc = "idle" /\ runs < MaxRuns
    /\ runs' = runs + 1 /\ prog' = "update"
    /\ pre' = [parquet |-> parquet, sqlite |-> sqlite]
    /\ force' = f /\ updated_at' = checked
    /\ is_recent' = check_for_updates(checked)
    /\ pc' = "check" /\ outcome' = "running"
    /\ UNCHANGED <<datasets, all_dataframes, current_data, historical_data,
                   current_df, final_df, fsVars, normVars>>

\* "if not force and not is_recent: ... return"; neither flag is read again
FreshnessGate ==
    /\ pc = "check"
    /\ IF ~force /\ ~is_recent
       THEN Return("skipped")
       ELSE /\ pc' = "backup" /\ force' = FALSE /\ is_recent' = FALSE
            /\ updated_at' = NoCheck
            /\ UNCHANGED <<prog, datasets, all_dataframes, current_data,
                           historical_data, current_df, final_df, outcome>>
    /\ UNCHANGED <<fsVars, runs, pre, normVars>>

\* backup_existing_data(): each existing file is renamed into backups/
BackupExistingData ==
    /\ pc = "backup"
    /\ backups' = IF parquet = NoFile /\ sqlite = NoDb THEN backups
                  ELSE Append(backups, [parquet |-> parquet, sqlite |-> sqlite])
    /\ parquet' = NoFile /\ sqlite' = NoDb
    /\ pc' = "fetch"
    /\ UNCHANGED persisted
    /\ UNCHANGED <<prog, force, is_recent, updated_at, datasets, all_dataframes, current_data,
                   historical_data, current_df, final_df, outcome, runs, pre,
                   normVars>>

\* fetch_current_dataset(), and "No current data fetched. Aborting update."
FetchCurrentDataset(data) ==
    /\ pc = "fetch"
    /\ IF data.rows = <<>>
       THEN Return("aborted")
       ELSE /\ current_data' = data /\ pc' = "load"
            /\ UNCHANGED <<prog, force, is_recent, updated_at, datasets, all_dataframes,
                           historical_data, current_df, final_df, outcome>>
    /\ UNCHANGED <<fsVars, runs, pre, normVars>>

LoadHistoricalData ==
    /\ pc = "load"
    /\ historical_data' = load_historical_data
    /\ pc' = "merge"
    /\ UNCHANGED <<prog, force, is_recent, updated_at, datasets, all_dataframes, current_data,
                   current_df, final_df, outcome, runs, pre, fsVars, normVars>>

ProcessAndMergeData ==
    /\ pc = "merge"
    /\ IF MergeRaises(current_data, historical_data)
       THEN Return("crashed")
       ELSE /\ current_df' = CurrentFrame(current_data)
            /\ final_df' = process_and_merge_data(current_data, historical_data)
            /\ pc' = "export"
            /\ UNCHANGED <<prog, force, is_recent, updated_at, datasets, all_dataframes,
                           current_data, historical_data, outcome>>
    /\ UNCHANGED <<fsVars, runs, pre, normVars>>

\* export_data(df), then the closing prints of update
ExportData ==
    /\ pc = "export"
    /\ parquet' = final_df /\ persisted' = final_df
    /\ sqlite' = [table |-> final_df,
                  indexes |-> CreateIndexes(final_df.cols, updater_index_columns)]
    /\ pc' = "done"
    /\ outcome' = IF Cardinality(sqlite'.indexes) = Len(updater_index_columns)
                  THEN "exported" ELSE "export_failed"
    /\ UNCHANGED <<backups, prog, force, is_recent, updated_at, datasets, all_dataframes,
                   current_data, historical_data, current_df, final_df, runs,
                   pre, normVars>>

\* the program returns after a completed run
Finish ==
    /\ pc = "done"
    /\ Return(outcome)
    /\ UNCHANGED <<fsVars, runs, pre, normVars>>

----------------------------------------------------------------------------
(* process_lapd_data.main *)

MainBegin(catalog) ==
    /\ stage = "off" /\ pc = "idle" /\ runs < MaxRuns
    /\ runs' = runs + 1 /\ prog' = "main"
    /\ pre' = [parquet |-> parquet, sqlite |-> sqlite]
    /\ datasets' = catalog /\ all_dataframes' = <<>>
    /\ pc' = "m_fetch" /\ outcome' = "running"
    /\ UNCHANGED <<force, is_recent, updated_at, current_data, historical_data, current_df,
                   final_df, fsVars, normVars>>

\* one round of "for dataset in datasets": fetch_dataset and, if it
\* returned records, the frame tagged with its source
MainFetch(data) ==
    /\ pc = "m_fetch" /\ datasets # <<>>
    /\ all_dataframes' =
          IF data.rows = <<>> THEN all_dataframes
          ELSE Append(all_dataframes,
                      WithSource(data, Head(datasets).name, Head(datasets).year))
    /\ datasets' = Tail(datasets)
    /\ UNCHANGED <<prog, pc, force, is_recent, updated_at, current_data, historical_data,
                   current_df, final_df, outcome, runs, pre, fsVars, normVars>>

\* "No data was successfully fetched!"
MainNoData ==
    /\ pc = "m_fetch" /\ datasets = <<>> /\ all_dataframes = <<>>
    /\ Return("nodata")
    /\ UNCHANGED <<fsVars, runs, pre, normVars>>

\* concatenate, clean and process
MainProcess ==
    /\ pc = "m_fetch" /\ datasets = <<>> /\ all_dataframes # <<>>
    /\ IF CleanRaises(ConcatAll(all_dataframes))
       THEN Return("crashed") /\ UNCHANGED reported
       ELSE /\ LET result == clean_and_process_data(ConcatAll(all_dataframes))
               IN final_df' = result.df /\ reported' = result.removed
            /\ pc' = "m_export"
            /\ UNCHANGED <<prog, force, is_recent, updated_at, datasets, all_dataframes,
                           current_data, historical_data, current_df, outcome>>
    /\ UNCHANGED <<fsVars, runs, pre, batch, cleaned, recleaned, updated, stage,
                   remote, anaVars, fetchVars>>

\* to_parquet, to_sql and the indexes, over whatever files exist
MainExport ==
    /\ pc = "m_export"
    /\ parquet' = final_df /\ persisted' = final_df
    /\ sqlite' = [table |-> final_df,
                  indexes |-> CreateIndexes(final_df.cols, main_index_columns)]
    /\ pc' = "done"
    /\ outcome' = IF Cardinality(sqlite'.indexes) = Len(main_index_columns)
                  THEN "exported" ELSE "export_failed"
    /\ UNCHANGED <<backups, prog, force, is_recent, updated_at, datasets, all_dataframes,
                   current_data, historical_data, current_df, final_df, runs,
                   pre, normVars>>

Init == InitFiles /\ InitRun /\ InitNorm /\ InitAnalyzer /\ InitFetchLoop

Next ==
    \/ \E f \in BOOLEAN, checked \in CheckResults :
          UpdateBegin(f, checked)
    \/ FreshnessGate
    \/ BackupExistingData
    \/ \E data \in FetchResults : FetchCurrentDataset(data)
    \/ LoadHistoricalData
    \/ ProcessAndMergeData
    \/ ExportData
    \/ Finish
    \/ \E catalog \in Catalog : MainBegin(catalog)
    \/ \E data \in FetchResults : MainFetch(data)
    \/ MainNoData
    \/ MainProcess
    \/ MainExport

Spec == Init /\ [][Next]_vars

----------------
(* Normalizer harness: clean_and_process_data applied once and again, and   *)
(* clean_data, on one raw batch                                             *)

InitClean ==
    /\ InitFiles /\ InitRun /\ InitAnalyzer /\ InitFetchLoop
    /\ \E cols \in Shapes : \E rows \in RawBatches(cols) : batch = Frame(cols, rows)
    /\ cleaned = NoFrame /\ recleaned = NoFrame /\ updated = NoFrame
    /\ reported = 0 /\ stage = "raw" /\ remote = <<>>

CleanAndProcess ==
    /\ stage = "raw" /\ ~CleanRaises(batch)
    /\ LET result == clean_and_process_data(batch)
       IN cleaned' = result.df /\ reported' = result.removed
    /\ stage' = "cleaned"
    /\ UNCHANGED <<batch, recleaned, updated, remote, anaVars, fetchVars, fsVars,
                   runVars>>

CleanAndProcessRaises ==
    /\ stage = "raw" /\ CleanRaises(batch)
    /\ stage' = "raised"
    /\ UNCHANGED <<batch, cleaned, recleaned, updated, reported, remote, anaVars, fetchVars, fsVars,
                   runVars>>

CleanAgain ==
    /\ stage = "cleaned" /\ ~CleanRaises(cleaned)
    /\ recleaned' = clean_and_process_data(cleaned).df
    /\ stage' = "recleaned"
    /\ UNCHANGED <<batch, cleaned, updated, reported, remote, anaVars, fetchVars, fsVars,
                   runVars>>

UpdaterClean ==
    /\ stage = "recleaned" /\ ~CleanDataRaises(batch)
    /\ updated' = clean_data(batch)
    /\ stage' = "done"
    /\ UNCHANGED <<batch, cleaned, recleaned, reported, remote, anaVars, fetchVars, fsVars,
                   runVars>>

NextClean == CleanAndProcess \/ CleanAndProcessRaises \/ CleanAgain \/ UpdaterClean

SpecClean == InitClean /\ [][NextClean]_vars

----------------------------------------------------------------------------
(* End-to-end scenario: main builds the table from vintages A and B, then   *)
(* update refreshes the 2024 vintage with B                                 *)

InitScenario ==
    /\ InitFiles /\ InitRun /\ InitAnalyzer /\ InitFetchLoop
    /\ batch = NoFrame /\ cleaned = NoFrame /\ recleaned = NoFrame
    /\ updated = NoFrame /\ reported = 0 /\ stage = "off"
    /\ \E bad \in 1..3, shared \in 1..3, at \in 1..2 :
          remote = ScenarioRemote(bad, shared, at)

ScenarioBuild == runs = 0 /\ MainBegin(<<V2023, V2024>>)

ScenarioFetch ==
    /\ datasets # <<>>
    /\ MainFetch(IF Head(datasets).year = 2023 THEN remote.A ELSE remote.B)

ScenarioUpdate ==
    /\ runs = 1 /\ parquet # NoFile
    /\ \E f \in BOOLEAN, checked \in CheckResults :
          UpdateBegin(f, checked)

ScenarioFetchCurrent == FetchCurrentDataset(remote.B)

NextScenario ==
    \/ ScenarioBuild
    \/ ScenarioFetch
    \/ MainProcess
    \/ MainExport
    \/ Finish
    \/ ScenarioUpdate
    \/ FreshnessGate
    \/ BackupExistingData
    \/ ScenarioFetchCurrent
    \/ LoadHistoricalData
    \/ ProcessAndMergeData
    \/ ExportData

SpecScenario == InitScenario /\ [][NextScenario]_vars

----------------------------------------------------------------------------
(* Paginated runs: main fetches both datasets page by page, then update     *)
(* fetches the 2024 dataset                                                 *)

InitPortal ==
    /\ InitFiles /\ InitRun /\ InitAnalyzer /\ InitFetchLoop
    /\ batch = NoFrame /\ cleaned = NoFrame /\ recleaned = NoFrame
    /\ updated = NoFrame /\ reported = 0 /\ stage = "off"
    /\ remote \in Portals

Served(d) == DataFrame(d.cols, fetch_dataset(d.rows, d.fail))

PortalBuild ==
    /\ runs = 0
    /\ \E results \in CatalogResults : MainBegin(get_lapd_datasets(results))

PortalFetch ==
    /\ datasets # <<>>
    /\ MainFetch(Served(IF Head(datasets).year = 2023 THEN remote.A ELSE remote.B))

PortalUpdate ==
    /\ runs = 1
    /\ \E f \in BOOLEAN, checked \in CheckResults :
          UpdateBegin(f, checked)

PortalFetchCurrent ==
    FetchCurrentDataset(
        DataFrame(remote.B.cols, fetch_current_dataset(remote.B.rows, remote.fail)))

NextPortal ==
    \/ PortalBuild
    \/ PortalFetch
    \/ MainNoData
    \/ MainProcess
    \/ MainExport
    \/ Finish
    \/ PortalUpdate
    \/ FreshnessGate
    \/ BackupExistingData
    \/ PortalFetchCurrent
    \/ LoadHistoricalData
    \/ ProcessAndMergeData
    \/ ExportData

SpecPortal == InitPortal /\ [][NextPortal]_vars

----------------------------------------------------------------------------
(* Runs over files that a full build and one completed update left behind  *)

\* what the full build fetched, and what the update after it fetched
BaselineBuilds ==
    {Frame(LAPDCols, <<LAPDRow(Str(<<"X1">>), DateText(2023, 12, 31))>>),
     Frame(LAPDCols, <<LAPDRow(Str(<<"X1">>), DateText(2023, 12, 31)),
                       LAPDRow(Str(<<"X2">>), DateText(2023, 12, 31))>>)}
BaselineUpdates ==
    {Frame(LAPDCols, <<LAPDRow(Str(<<"X1">>), DateText(2024, 7, 4))>>),
     Frame(LAPDCols, <<LAPDRow(Str(<<"X2">>), DateText(2023, 12, 31)),
                       LAPDRow(Str(<<"X2">>), DateText(2024, 7, 4))>>)}

\* the table main() persists from one fetched vintage
BuiltTable(built) ==
    clean_and_process_data(ConcatAll(<<WithSource(built, V2023.name, V2023.year)>>)).df

\* the table update() persists over it
UpdatedTable(built, data) ==
    LET df == BuiltTable(built)
    IN process_and_merge_data(data, Frame(df.cols, RowsBefore(df.rows, BoundaryYear)))

InitBaseline ==
    /\ InitRun /\ InitNorm /\ InitAnalyzer /\ InitFetchLoop
    /\ \E built \in BaselineBuilds, data \in BaselineUpdates :
          /\ backups = <<[parquet |-> BuiltTable(built),
                          sqlite |-> [table |-> BuiltTable(built),
                                      indexes |-> CreateIndexes(BuiltTable(built).cols,
                                                                main_index_columns)]]>>
          /\ parquet = UpdatedTable(built, data)
          /\ sqlite = [table |-> parquet,
                       indexes |-> CreateIndexes(parquet.cols, updater_index_columns)]
          /\ persisted = parquet

SpecBaseline == InitBaseline /\ [][Next]_vars

----------------------------------------------------------------------------
(* The fetch loop of fetch_dataset and fetch_current_dataset, one request   *)
(* at a time                                                                *)

\* most records a dataset holds, and most requests followed in one fetch
MaxRecords == 5
MaxRequests == 5

NoResponse == [status |-> "none", batch_data |-> <<>>]

SourceKeys == <<"K1", "K2", "K3", "K4", "K5", "K6">>

\* A dataset of n records; an "endless" source ignores $offset and serves
\* its first page to every request, a "paged" one serves the records from
\* $offset on.  Request number fail raises RequestException (0: none does).
Sources ==
    {[kind |-> k, fail |-> f,
      rows |-> [i \in 1..n |-> LAPDRow(Str(<<SourceKeys[i]>>), DateText(2024, 7, 4))]] :
        k \in {"paged", "endless"}, f \in 0..MaxRequests, n \in 0..MaxRecords}

\* response.json() for {"$limit": batch_size, "$offset": at}
Page(source, at) ==
    LET from == IF source.kind = "endless" THEN 0 ELSE at
        last == IF from + batch_size < Len(source.rows)
                THEN from + batch_size ELSE Len(source.rows)
    IN SubSeq(source.rows, from + 1, last)

SameOffset(at) == at

\* offset += batch_size
NextOffset(at) == at + batch_size

InitFetch ==
    /\ InitFiles /\ InitRun /\ InitAnalyzer
    /\ batch = NoFrame /\ cleaned = NoFrame /\ recleaned = NoFrame
    /\ updated = NoFrame /\ reported = 0 /\ stage = "off"
    /\ remote \in Sources
    /\ page_offset = 0 /\ all_data = <<>> /\ requested = <<>>
    /\ response = NoResponse /\ fetching = "request"

\* requests.get(base_url, params) and raise_for_status()
Request ==
    /\ fetching = "request" /\ Len(requested) < MaxRequests
    /\ requested' = Append(requested, page_offset)
    /\ response' = IF Len(requested') = remote.fail
                   THEN [status |-> "error", batch_data |-> <<>>]
                   ELSE [status |-> "ok", batch_data |-> Page(remote, page_offset)]
    /\ fetching' = "response"
    /\ UNCHANGED <<page_offset, all_data, fsVars, runVars, anaVars,
                   batch, cleaned, recleaned, updated, reported, stage, remote>>

\* "if not batch_data: break", and the except clause
Break ==
    /\ fetching = "response"
    /\ response.status = "error" \/ response.batch_data = <<>>
    /\ fetching' = "returned"
    /\ UNCHANGED <<page_offset, all_data, requested, response, fsVars, runVars, anaVars,
                   batch, cleaned, recleaned, updated, reported, stage, remote>>

\* all_data.extend(batch_data); offset += batch_size
Extend ==
    /\ fetching = "response"
    /\ response.status = "ok" /\ response.batch_data # <<>>
    /\ all_data' = all_data \o response.batch_data
    /\ page_offset' = NextOffset(page_offset)
    /\ fetching' = "request"
    /\ UNCHANGED <<requested, response, fsVars, runVars, anaVars,
                   batch, cleaned, recleaned, updated, reported, stage, remote>>

NextFetch == Request \/ Break \/ Extend

SpecFetch == InitFetch /\ [][NextFetch]_vars

\* the loop is not suspended for ever between two requests
SpecFetchLive == SpecFetch /\ WF_vars(NextFetch)

----------------------------------------------------------------------------
(* analysis/fireworks_analysis.py: FireworksAnalyzer *)

\* most records in the table the analyzer loads
MaxCalls == 2

\* str.contains('^CODE 6', case=False, na=False) on one cell; a text is its
\* sequence of characters
Code6Pattern == <<"C", "O", "D", "E", " ", "6">>

UpperChar(ch) ==
    CASE ch = "c" -> "C" [] ch = "o" -> "O" [] ch = "d" -> "D" [] ch = "e" -> "E"
      [] OTHER -> ch

StartsWithCode6(c) ==
    /\ c.t = "str" /\ Len(c.v) >= Len(Code6Pattern)
    /\ \A i \in 1..Len(Code6Pattern) : UpperChar(c.v[i]) = Code6Pattern[i]

NoCode6(r) == FALSE

code6_mask(r) ==
    r["call_type_code"] = Str(<<"006">>) \/ StartsWithCode6(r["call_type"])

fireworks_mask(r) == r["call_type_code"] = Str(<<"507F">>)

RECURSIVE MaskRows(_, _)
MaskRows(rows, keep) ==
    IF rows = <<>> THEN <<>>
    ELSE (IF Head(keep) THEN <<Head(rows)>> ELSE <<>>) \o MaskRows(Tail(rows), Tail(keep))

\* self.df[~code6_mask][fireworks_mask].copy()
identify_fireworks_calls(d) ==
    LET filtered_df ==
            Frame(d.cols, MaskRows(d.rows, [i \in 1..Len(d.rows) |-> ~code6_mask(d.rows[i])]))
    IN Frame(filtered_df.cols,
             MaskRows(filtered_df.rows,
                      [i \in 1..Len(filtered_df.rows) |-> fireworks_mask(filtered_df.rows[i])]))

\* the division by len(self.df) in the "That's ...% of all calls" print
IdentifyRaises(d) == Len(d.rows) = 0

holidays ==
    <<[name |-> "New Year", month |-> 1, day |-> 1],
      [name |-> "Independence Day", month |-> 7, day |-> 4],
      [name |-> "New Year Eve", month |-> 12, day |-> 31]>>

\* .dt.day
DayOf(c) == IF c.t = "datetime" THEN Num(c.v[3]) ELSE NULL

\* Series.between(lo, hi) on one cell
Between(c, lo, hi) == c.t = "num" /\ lo <= c.v[1] /\ c.v[1] <= hi

holiday_mask(r, h) ==
    r["month"] = Num(h.month) /\ Between(DayOf(r["primary_date"]), h.day - 3, h.day + 3)

\* holiday_analysis[holiday_name] = len(holiday_calls), for each holiday
analyze_holiday_patterns(fw) ==
    [i \in 1..Len(holidays) |->
        [name |-> holidays[i].name,
         calls |-> Cardinality({j \in 1..Len(fw.rows) : holiday_mask(fw.rows[j], holidays[i])})]]

\* What the dataset holds under call_type_code and call_type_text
CodeChoices == {Str(<<"507F">>), Str(<<"006">>), Str(<<"415">>), NULL}
CallTypeChoices ==
    {Str(<<"C", "O", "D", "E", " ", "6">>),
     Str(<<"c", "o", "d", "e", " ", "6", "0">>),
     Str(<<"X", " ", "C", "O", "D", "E", " ", "6">>),
     Str(<<"F", "I", "R", "E", " ">>),
     NULL}
CallDates ==
    {DateText(2023, 12, 29), DateText(2024, 1, 2), DateText(2024, 1, 5),
     DateText(2024, 7, 1), DateText(2024, 7, 8), DateText(2024, 12, 28)}

CallRow(code, text, d) ==
    [LAPDRow(Str(<<"X1">>), d) EXCEPT !["call_type_code"] = code,
                                      !["call_type_text"] = text]

CallRows == {CallRow(code, text, d) : code \in CodeChoices, text \in CallTypeChoices,
                                      d \in CallDates}

\* The tables main() can have persisted: the cleaned form of up to MaxCalls
\* records, or of records that all lack a valid date
PersistedTables ==
    {clean_and_process_data(Frame(LAPDCols, rows)).df :
        rows \in UNION {[1..n -> CallRows] : n \in 1..MaxCalls}}
    \cup {clean_and_process_data(
              Frame(LAPDCols, <<LAPDRow(Str(<<"X1">>), DateText(2024, 13, 1))>>)).df}

InitFireworks ==
    /\ InitRun /\ InitNorm /\ InitFetchLoop
    /\ \E t \in PersistedTables \cup {NoFile} :
          /\ parquet = t
          /\ sqlite = IF t = NoFile THEN NoDb
                      ELSE [table |-> t, indexes |-> CreateIndexes(t.cols, main_index_columns)]
    /\ backups = <<>> /\ persisted = parquet
    /\ self_df = NoFrame /\ fireworks_df = NoFrame
    /\ holiday_analysis = <<>> /\ analyses = <<>> /\ step = "load"

\* load_data(), and "if not self.load_data(): return"
LoadData ==
    /\ step = "load"
    /\ IF parquet = NoFile
       THEN step' = "nofile" /\ UNCHANGED self_df
       ELSE self_df' = parquet /\ step' = "identify"
    /\ UNCHANGED <<fireworks_df, holiday_analysis, analyses, fsVars, runVars,
                   batch, cleaned, recleaned, updated, reported, stage, remote, fetchVars>>

\* identify_fireworks_calls(), and "No fireworks-related calls found."
IdentifyFireworksCalls ==
    /\ step = "identify"
    /\ fireworks_df' = identify_fireworks_calls(self_df)
    /\ step' = IF IdentifyRaises(self_df) THEN "raised"
               ELSE IF Len(fireworks_df'.rows) > 0 THEN "analyze_by_year"
               ELSE "stopped"
    /\ UNCHANGED <<self_df, holiday_analysis, analyses, fsVars, runVars,
                   batch, cleaned, recleaned, updated, reported, stage, remote, fetchVars>>

\* An analysis that draws its chart from self.fireworks_df
Chart(name, next) ==
    /\ step = name
    /\ analyses' = Append(analyses, name)
    /\ step' = next
    /\ UNCHANGED <<self_df, fireworks_df, fsVars, runVars,
                   batch, cleaned, recleaned, updated, reported, stage, remote, fetchVars>>

AnalyzeByYear == Chart("analyze_by_year", "analyze_by_month") /\ UNCHANGED holiday_analysis
AnalyzeByMonth ==
    Chart("analyze_by_month", "analyze_by_day_of_week") /\ UNCHANGED holiday_analysis
AnalyzeByDayOfWeek ==
    Chart("analyze_by_day_of_week", "analyze_by_area") /\ UNCHANGED holiday_analysis
AnalyzeByArea ==
    Chart("analyze_by_area", "analyze_holiday_patterns") /\ UNCHANGED holiday_analysis

AnalyzeHolidayPatterns ==
    /\ Chart("analyze_holiday_patterns", "analyze_july_4th_by_year")
    /\ holiday_analysis' = analyze_holiday_patterns(fireworks_df)

AnalyzeJuly4thByYear ==
    Chart("analyze_july_4th_by_year", "generate_summary_report") /\ UNCHANGED holiday_analysis

GenerateSummaryReport ==
    Chart("generate_summary_report", "done") /\ UNCHANGED holiday_analysis

NextFireworks ==
    \/ LoadData
    \/ IdentifyFireworksCalls
    \/ AnalyzeByYear
    \/ AnalyzeByMonth
    \/ AnalyzeByDayOfWeek
    \/ AnalyzeByArea
    \/ AnalyzeHolidayPatterns
    \/ AnalyzeJuly4thByYear
    \/ GenerateSummaryReport

SpecFireworks == InitFireworks /\ [][NextFireworks]_vars

----------------------------------------------------------------------------
(* Properties *)

KeyOf(r) == r["incident_number"]
InRows(r, rows) == \E j \in 1..Len(rows) : rows[j] = r
RowsWithKey(rows, k) == {j \in 1..Len(rows) : KeyOf(rows[j]) = k}
Last(S) == CHOOSE x \in S : \A y \in S : y <= x
UniqueKeys(rows) ==
    \A i, j \in 1..Len(rows) : i # j => KeyOf(rows[i]) # KeyOf(rows[j])
NoNullPrimary(df) == \A i \in 1..Len(df.rows) : ~IsNull(df.rows[i]["primary_date"])
YearBelow(r, y) == r["year"].t = "num" /\ r["year"].v[1] < y

\* The fresh records as clean_data derives them, index by index, before the
\* records without a date are dropped
FreshVersions ==
    UpdaterDerived(WithSource(current_data,
                              "LAPD Calls for Service 2024 to Present", 2024)).rows

FreshWithKey(k) ==
    {i \in 1..Len(current_data.rows) : KeyOf(current_data.rows[i]) = k}
FreshKeys ==
    {KeyOf(current_data.rows[i]) : i \in 1..Len(current_data.rows)} \ {NULL}

\* C1 as stated: each key fetched on a record with a valid date ends up on
\* exactly one record of the merged table, the last fresh record with that key
C1_LastFreshWins ==
    (prog = "update" /\ pc = "export") =>
        LET fresh == FreshVersions
        IN \A k \in FreshKeys :
              (\E i \in FreshWithKey(k) : ~IsNull(fresh[i]["primary_date"])) =>
                  /\ Cardinality(RowsWithKey(final_df.rows, k)) = 1
                  /\ \A j \in RowsWithKey(final_df.rows, k) :
                        final_df.rows[j] = fresh[Last(FreshWithKey(k))]

\* C1 (amended): each key fetched on a record with a valid date ends up on
\* exactly one record of the merged table, and that record is the last fresh
\* record with that key among those that have a valid date, whatever the
\* historical records with that key
C1_DedupWinsLatest ==
    (prog = "update" /\ pc = "export") =>
        LET fresh == FreshVersions
        IN \A k \in FreshKeys :
              LET valid == {i \in FreshWithKey(k) : ~IsNull(fresh[i]["primary_date"])}
              IN valid # {} =>
                    /\ Cardinality(RowsWithKey(final_df.rows, k)) = 1
                    /\ \A j \in RowsWithKey(final_df.rows, k) :
                          final_df.rows[j] = fresh[Last(valid)]

C1_Witness ==
    /\ prog = "update" /\ pc = "export" /\ historical_data # NoData
    /\ \E k \in FreshKeys : \E i \in FreshWithKey(k) :
          /\ ~IsNull(FreshVersions[i]["primary_date"])
          /\ \E h \in RowsWithKey(historical_data.rows, k) :
                historical_data.rows[h] # FreshVersions[i]

\* C2 as stated: whichever program persisted it, the table holds no two
\* records with the same incident_number
C2_UniqueAfterAnyRun ==
    parquet # NoFile => UniqueKeys(parquet.rows)

\* C2 (amended): the table persisted by an incremental update holds no two
\* records with the same incident_number (a missing key counted as a value),
\* in the columnar file and in the row store alike
C2_UniqueAfterUpdate ==
    (prog = "update" /\ outcome = "exported") =>
        UniqueKeys(parquet.rows) /\ UniqueKeys(sqlite.table.rows)

C2_Witness ==
    /\ prog = "update" /\ outcome = "exported" /\ pc = "done"
    /\ Len(parquet.rows) >= 2
    /\ Len(Merged(current_data, historical_data).rows) > Len(parquet.rows)

\* primary_date as the normalizer's rule 4 gives it for one raw record of a
\* frame with columns cols
RawDate(cols, r, canonical, raw) ==
    IF raw \in cols THEN r[raw] ELSE r[canonical]
ExpectedPrimary(cols, r) ==
    IF {"occurrence_date", "date_occ"} \cap cols # {}
    THEN ToDatetime(RawDate(cols, r, "occurrence_date", "date_occ"))
    ELSE IF {"report_date", "date_rptd"} \cap cols # {}
         THEN ToDatetime(RawDate(cols, r, "report_date", "date_rptd"))
         ELSE IF "dispatch_date" \in cols THEN ToDatetime(r["dispatch_date"])
              ELSE NULL
Dated(df) ==
    {i \in 1..Len(df.rows) : ~IsNull(ExpectedPrimary(df.cols, df.rows[i]))}

AllThreeValid(cols, r) ==
    /\ {"occurrence_date", "date_occ"} \cap cols # {}
    /\ {"report_date", "date_rptd"} \cap cols # {}
    /\ "dispatch_date" \in cols
    /\ ~IsNull(ToDatetime(RawDate(cols, r, "occurrence_date", "date_occ")))
    /\ ~IsNull(ToDatetime(RawDate(cols, r, "report_date", "date_rptd")))
    /\ ~IsNull(ToDatetime(r["dispatch_date"]))

\* the occurrence date of the raw batches is 30 June 2023, a Friday
OccurrenceFields(d) ==
    /\ d["primary_date"] = Timestamp(2023, 6, 30)
    /\ d["primary_date"] = d["occurrence_date"]
    /\ d["year"] = Num(2023) /\ d["month"] = Num(6)
    /\ d["day_of_week"] = Str(<<"Friday">>)

\* C4: a record whose occurrence, report and dispatch dates are all present
\* and valid, under raw or canonical names, is kept with primary_date equal
\* to its occurrence date and year, month and day_of_week those of that date,
\* by clean_and_process_data and by clean_data
C4_DatePriority ==
    /\ stage \in {"cleaned", "recleaned", "done"} =>
          \A i \in 1..Len(batch.rows) : AllThreeValid(batch.cols, batch.rows[i]) =>
              /\ InRows(Derived(batch).rows[i], cleaned.rows)
              /\ OccurrenceFields(Derived(batch).rows[i])
    /\ stage = "done" =>
          \A i \in 1..Len(batch.rows) : AllThreeValid(batch.cols, batch.rows[i]) =>
              /\ InRows(UpdaterDerived(batch).rows[i], updated.rows)
              /\ OccurrenceFields(UpdaterDerived(batch).rows[i])

C4_Witness ==
    /\ stage = "done" /\ "date_occ" \in batch.cols
    /\ \E i \in 1..Len(batch.rows) : AllThreeValid(batch.cols, batch.rows[i])
    /\ \E i \in 1..Len(batch.rows) : ~AllThreeValid(batch.cols, batch.rows[i])

RECURSIVE Reversed(_)
Reversed(q) == IF q = <<>> THEN <<>> ELSE Append(Reversed(Tail(q)), Head(q))

\* C5: a record with both call_type_text and call_type_description gets the
\* trimmed call_type_text as call_type, whatever the order of the rename map;
\* a batch with call_type_description alone takes call_type from it; a batch
\* with neither gets no call_type column
C5_CallTypePrecedence ==
    stage \in {"cleaned", "recleaned", "done"} =>
        /\ \A j \in 1..Len(cleaned.rows) :
              LET r == cleaned.rows[j]
              IN (~IsNull(r["call_type_text"]) /\ ~IsNull(r["call_type_description"]))
                    => /\ r["call_type"] = StrStrip(r["call_type_text"])
                       /\ r["call_type"] = Str(<<"FIREWORKS">>)
        /\ \A i \in 1..Len(batch.rows) :
              DerivedWith(batch, Reversed(column_mapping)).rows[i]["call_type"]
                 = Derived(batch).rows[i]["call_type"]
        /\ ("call_type_text" \notin batch.cols /\ "call_type_description" \in batch.cols)
              => /\ "call_type" \in cleaned.cols
                 /\ \A j \in 1..Len(cleaned.rows) :
                       cleaned.rows[j]["call_type"]
                          = StrStrip(cleaned.rows[j]["call_type_description"])
        /\ (batch.cols \cap {"call_type_text", "call_type_description"} = {})
              => "call_type" \notin cleaned.cols

C5_Witness ==
    /\ stage = "cleaned"
    /\ \E j \in 1..Len(cleaned.rows) :
          /\ cleaned.rows[j]["call_type_text"] = Str(<<" ", "FIREWORKS", " ">>)
          /\ cleaned.rows[j]["call_type_description"] = Str(<<"OTHER", " ">>)
          /\ cleaned.rows[j]["call_type"] = Str(<<"FIREWORKS">>)

\* C6: normalizing a normalized batch again changes no field of any record
\* and drops no record
C6_Idempotent ==
    stage \in {"recleaned", "done"} => recleaned = cleaned

\* the incident_number the two batches of the scenario share, the record of
\* A that carries it, and B's record with it as the update normalizes it
SharedKey ==
    CHOOSE k \in {KeyOf(remote.B.rows[j]) : j \in 1..2} :
        \E i \in 1..3 : KeyOf(remote.A.rows[i]) = k
SharedOfA == CHOOSE i \in 1..3 : KeyOf(remote.A.rows[i]) = SharedKey
SharedOfB == CHOOSE j \in 1..2 : KeyOf(remote.B.rows[j]) = SharedKey
SharedIsUnparseable == IsNull(ToDatetime(remote.A.rows[SharedOfA]["dispatch_date"]))
BVersion == CurrentFrame(remote.B).rows[SharedOfB]

OverlapHasBValues ==
    /\ Cardinality(RowsWithKey(parquet.rows, SharedKey)) = 1
    /\ \A j \in RowsWithKey(parquet.rows, SharedKey) :
          /\ parquet.rows[j] = BVersion
          /\ parquet.rows[j]["primary_date"] = Timestamp(2024, 7, 4)
          /\ parquet.rows[j]["source_year"] = Num(2024)

\* C7 as stated: whichever record of A the overlap is with, the update of the
\* full-build table leaves exactly 4 records, the overlapping key with B's values
C7_ExactlyFour ==
    (prog = "update" /\ pc = "done") =>
        Len(parquet.rows) = 4 /\ OverlapHasBValues

\* C7 (amended): the update of the full-build table leaves exactly 4 records
\* when the overlap is with the record of A that has the unparseable date and
\* exactly 3 when it is with a dated record of A, and in both cases the
\* overlapping key is on one record, with B's values
C7_EndToEnd ==
    (prog = "update" /\ pc = "done") =>
        /\ Len(pre.parquet.rows) = 4
        /\ Len(parquet.rows) = IF SharedIsUnparseable THEN 4 ELSE 3
        /\ OverlapHasBValues

C7_Witness ==
    /\ prog = "update" /\ pc = "done" /\ outcome = "exported"
    /\ ~SharedIsUnparseable
    /\ RowsWithKey(historical_data.rows, SharedKey) # {}
    /\ Len(pre.parquet.rows) = 4 /\ Len(parquet.rows) = 3

\* C8 as stated: every record of the previously persisted table below the
\* boundary year is in the table the update persists, unchanged
C8_OlderUntouched ==
    (prog = "update" /\ pc = "done" /\ pre.parquet # NoFile) =>
        \A i \in 1..Len(pre.parquet.rows) :
            YearBelow(pre.parquet.rows[i], BoundaryYear) =>
                InRows(pre.parquet.rows[i], parquet.rows)

\* the records after position i of the previously persisted table that are
\* below the boundary year
LaterOlder(i) ==
    {j \in (i + 1)..Len(pre.parquet.rows) :
        YearBelow(pre.parquet.rows[j], BoundaryYear)}

\* C8 (amended): a record of the previously persisted table below the
\* boundary year is in the table the update persists, unchanged, unless a
\* later record of the merge carries the same incident_number (a later such
\* record of the old table, or a fresh record with a valid date; missing keys
\* count as equal)
C8_OlderPreserved ==
    (prog = "update" /\ pc = "done" /\ pre.parquet # NoFile) =>
        \A i \in 1..Len(pre.parquet.rows) :
            ( /\ YearBelow(pre.parquet.rows[i], BoundaryYear)
              /\ \A j \in LaterOlder(i) :
                    KeyOf(pre.parquet.rows[j]) # KeyOf(pre.parquet.rows[i])
              /\ RowsWithKey(current_df.rows, KeyOf(pre.parquet.rows[i])) = {} )
            => InRows(pre.parquet.rows[i], parquet.rows)

C8_Witness ==
    /\ prog = "update" /\ pc = "done" /\ pre.parquet # NoFile
    /\ current_df.rows # <<>>
    /\ \E i \in 1..Len(pre.parquet.rows) :
          /\ YearBelow(pre.parquet.rows[i], BoundaryYear)
          /\ RowsWithKey(current_df.rows, KeyOf(pre.parquet.rows[i])) = {}
          /\ InRows(pre.parquet.rows[i], parquet.rows)
    /\ \E i \in 1..Len(pre.parquet.rows) :
          ~YearBelow(pre.parquet.rows[i], BoundaryYear)

\* C9: a run that ends without exporting leaves both files where they were,
\* with the contents they had
C9_UntouchedWithoutExport ==
    (pc = "idle" /\ outcome \in {"skipped", "aborted", "nodata", "crashed"}) =>
        (parquet = pre.parquet /\ sqlite = pre.sqlite)

\* C10: a run that fetched nothing, or whose table came out empty, writes
\* neither file
C10_NoDataNoFiles ==
    ( \/ pc = "idle" /\ outcome \in {"aborted", "nodata"}
      \/ pc = "done" /\ final_df.rows = <<>> )
    => (parquet \in {NoFile, pre.parquet} /\ sqlite \in {NoDb, pre.sqlite})

\* C11: a run that overwrites the persisted files leaves the version of each
\* file that existed before the run in the backup location
C11_BackupBeforeOverwrite ==
    (pc = "done" /\ prog \in {"main", "update"}) =>
        /\ pre.parquet # NoFile =>
              \E b \in 1..Len(backups) : backups[b].parquet = pre.parquet
        /\ pre.sqlite # NoDb =>
              \E b \in 1..Len(backups) : backups[b].sqlite = pre.sqlite

\* the fresh records that clean_data keeps, by position in the fetched batch
FreshValid ==
    {i \in 1..Len(current_data.rows) : ~IsNull(FreshVersions[i]["primary_date"])}

\* an update that started with no columnar file and no backup of one
NoBaseline == prog = "update" /\ pre.parquet = NoFile /\ ParquetBackups = <<>>

FetchFailed(d) ==
    d.fail # 0 /\ (d.fail = 1 \/ (d.fail - 2) * batch_size < Len(d.rows))

\* the frames main collected from the vintage of year y
FramesOf(y) ==
    {i \in 1..Len(all_dataframes) :
        \E j \in 1..Len(all_dataframes[i].rows) :
            all_dataframes[i].rows[j]["source_year"] = Num(y)}

\* C13: when a request of a vintage's paginated fetch fails, at the first page
\* or later, the vintage contributes no records, and the build goes on with
\* the other vintage, which contributes all of its records
C13_FailedVintageContributesNothing ==
    (prog = "main" /\ pc = "m_fetch" /\ datasets = <<>>) =>
        \A v \in {<<remote.A, V2023>>, <<remote.B, V2024>>} :
            /\ FetchFailed(v[1]) => FramesOf(v[2].year) = {}
            /\ (~FetchFailed(v[1]) /\ v[1].rows # <<>>) =>
                  \E i \in FramesOf(v[2].year) :
                      all_dataframes[i] =
                          WithSource(Frame(v[1].cols, v[1].rows), v[2].name, v[2].year)

\* C14: update goes past the freshness check exactly when force is set or the
\* catalog reported an update fewer than 7 days back; otherwise (check failed,
\* no result, or an older update, without force) it returns "skipped" with
\* the files and backups as they were; nothing of update touches the files,
\* makes a backup or fetches before the gate has let the run through
C14_FreshnessGate ==
    [][ /\ pc = "check" =>
              /\ (pc' = "backup") <=>
                    (force \/ (updated_at.status = "found" /\ updated_at.days < 7))
              /\ pc' # "backup" =>
                    (pc' = "idle" /\ outcome' = "skipped" /\ UNCHANGED fsVars)
        /\ (prog' = "update" /\ pc' = "backup") => pc = "check"
        /\ (prog' = "update" /\ fsVars' # fsVars) => pc \in {"backup", "export"}
        /\ (prog' = "update" /\ pc' = "fetch") => pc = "backup"
        /\ (prog' = "update" /\ current_data' # current_data /\ pc' # "idle")
              => pc = "fetch"
      ]_vars

\* a run the gate turned back, with persisted files and no backup made
C14_Witness ==
    /\ prog = "update" /\ pc = "idle" /\ outcome = "skipped"
    /\ parquet # NoFile /\ parquet.rows # <<>> /\ backups = <<>>

\* what main fetched from each vintage, tagged with its source, and the
\* records in the order of the claim: 2023 first, fetch order within each
Fetched2023 == WithSource(Served(remote.A), V2023.name, V2023.year)
Fetched2024 == WithSource(Served(remote.B), V2024.name, V2024.year)
FetchedRows == Fetched2023.rows \o Fetched2024.rows
FetchedCols ==
    (IF Fetched2023.rows = <<>> THEN {} ELSE Fetched2023.cols)
    \cup (IF Fetched2024.rows = <<>> THEN {} ELSE Fetched2024.cols)
VintageCols(r) ==
    IF r["source_year"] = Num(2023) THEN Fetched2023.cols ELSE Fetched2024.cols

YearFrom(r, y) == r["year"].t = "num" /\ r["year"].v[1] >= y

\* C16: in the table a completed update persists, every record of the
\* boundary year or later is a freshly fetched, normalized record, so none of
\* that age is carried over from the previous table; and every fresh record
\* with a valid date whose incident_number no later fresh record repeats is
\* in the table
C16_ReplacedAtBoundary ==
    (prog = "update" /\ pc = "done") =>
        LET fresh == FreshVersions
            valid == FreshValid
        IN /\ \A j \in 1..Len(parquet.rows) :
                 YearFrom(parquet.rows[j], 2024) =>
                     \E i \in valid : parquet.rows[j] = fresh[i]
           /\ pre.parquet # NoFile =>
                 \A h \in 1..Len(pre.parquet.rows) :
                     ( /\ YearFrom(pre.parquet.rows[h], 2024)
                       /\ \A i \in valid : fresh[i] # pre.parquet.rows[h] )
                     => ~InRows(pre.parquet.rows[h], parquet.rows)
           /\ \A i \in valid :
                 ( /\ ~IsNull(KeyOf(fresh[i]))
                   /\ \A j \in (i + 1)..Len(current_data.rows) :
                         KeyOf(current_data.rows[j]) # KeyOf(current_data.rows[i]) )
                 => InRows(fresh[i], parquet.rows)

\* an update over a table that held records of 2024 and of 2023: the old
\* 2024 record is gone, a fresh one is in, and a 2023 record stays
C16_Witness ==
    /\ prog = "update" /\ pc = "done" /\ pre.parquet # NoFile
    /\ \E h \in 1..Len(pre.parquet.rows) :
          /\ YearFrom(pre.parquet.rows[h], 2024)
          /\ ~InRows(pre.parquet.rows[h], parquet.rows)
    /\ \E j \in 1..Len(parquet.rows) : YearFrom(parquet.rows[j], 2024)
    /\ \E j \in 1..Len(parquet.rows) :
          /\ YearBelow(parquet.rows[j], 2024)
          /\ InRows(parquet.rows[j], pre.parquet.rows)

\* the canonical fields a record gets when its own vintage is normalized by
\* itself, by position in what main fetched from that vintage
OwnVintage2023 == Derived(Fetched2023).rows
OwnVintage2024 == Derived(Fetched2024).rows

\* C17: every record main fetched that has a valid primary date by the
\* columns of its own vintage is in the table main builds, with the
\* call_type and the primary_date its own vintage's fields give
C17_PerVintage ==
    (prog = "main" /\ pc \in {"m_export", "done"}
        /\ ~CleanRaises(Fetched2023) /\ ~CleanRaises(Fetched2024)) =>
        /\ \A i \in 1..Len(OwnVintage2023) :
              ~IsNull(OwnVintage2023[i]["primary_date"]) =>
                  \E j \in 1..Len(final_df.rows) :
                      /\ KeyOf(final_df.rows[j]) = KeyOf(OwnVintage2023[i])
                      /\ final_df.rows[j]["source_year"] = Num(2023)
                      /\ final_df.rows[j]["primary_date"]
                            = OwnVintage2023[i]["primary_date"]
                      /\ final_df.rows[j]["call_type"] = OwnVintage2023[i]["call_type"]
        /\ \A i \in 1..Len(OwnVintage2024) :
              ~IsNull(OwnVintage2024[i]["primary_date"]) =>
                  \E j \in 1..Len(final_df.rows) :
                      /\ KeyOf(final_df.rows[j]) = KeyOf(OwnVintage2024[i])
                      /\ final_df.rows[j]["source_year"] = Num(2024)
                      /\ final_df.rows[j]["primary_date"]
                            = OwnVintage2024[i]["primary_date"]
                      /\ final_df.rows[j]["call_type"] = OwnVintage2024[i]["call_type"]

\* primary_date of every record is the parsed value of the first of
\* occurrence_date, report_date, dispatch_date the batch has as a column,
\* null when that value does not parse or the batch has none of the three;
\* a batch without a parseable date comes out empty
PrimaryByPresence ==
    /\ stage \in {"cleaned", "recleaned", "done"} =>
          /\ \A i \in 1..Len(batch.rows) :
                Derived(batch).rows[i]["primary_date"]
                   = ExpectedPrimary(batch.cols, batch.rows[i])
          /\ Len(cleaned.rows) = Cardinality(Dated(batch))
          /\ (batch.cols \cap DateFields = {}) => cleaned.rows = <<>>
    /\ stage = "done" =>
          /\ \A i \in 1..Len(batch.rows) :
                UpdaterDerived(batch).rows[i]["primary_date"]
                   = ExpectedPrimary(batch.cols, batch.rows[i])
          /\ Len(updated.rows) = Cardinality(Dated(batch))
          /\ (batch.cols \cap DateFields = {}) => updated.rows = <<>>

\* C18: primary_date is chosen by column presence in strict priority, an
\* unparseable value becomes null, a batch with no date column or no
\* parseable date comes out empty, and normalization raises no error
C18_PrimaryDateSelection ==
    PrimaryByPresence /\ stage # "raised"

CanonicalFields ==
    {"primary_date", "year", "month", "day_of_week", "hour", "call_type", "area_occ"}

\* C19: clean_data gives every raw batch the canonical fields that
\* clean_and_process_data gives it: the same records kept, with the same
\* primary_date, year, month, day_of_week, hour, call_type and area_occ
C19_SameCleaning ==
    stage = "done" =>
        /\ Len(updated.rows) = Len(cleaned.rows)
        /\ updated.cols \cap CanonicalFields = cleaned.cols \cap CanonicalFields
        /\ \A j \in 1..Len(cleaned.rows) : \A c \in CanonicalFields :
              updated.rows[j][c] = cleaned.rows[j][c]

\* C20: after a successful run the columnar file and the calls_for_service
\* table hold the same table, the one the run built, and the row store has
\* its indexes on primary_date, year, the canonical call type and area_occ
C20_SinksMirror ==
    (pc = "done" /\ outcome = "exported") =>
        /\ parquet = final_df
        /\ sqlite.table = final_df
        /\ sqlite.indexes = {"primary_date", "year", "call_type", "area_occ"}

\* The call types that begin with "CODE 6" in some letter case
Code6Texts ==
    {Str(<<"C", "O", "D", "E", " ", "6">>), Str(<<"c", "o", "d", "e", " ", "6", "0">>)}
IsCode6(r) == r["call_type_code"] = Str(<<"006">>) \/ r["call_type"] \in Code6Texts
IsFireworks(r) == r["call_type_code"] = Str(<<"507F">>) /\ ~IsCode6(r)
AllAnalyses ==
    <<"analyze_by_year", "analyze_by_month", "analyze_by_day_of_week", "analyze_by_area",
      "analyze_holiday_patterns", "analyze_july_4th_by_year", "generate_summary_report">>
Identified == step \notin {"off", "load", "nofile", "identify"}

\* C21: once identify_fireworks_calls has run, fireworks_df holds exactly
\* the loaded records with call_type_code '507F' that are not Code 6 calls
\* (code '006', or a call_type beginning with CODE 6 in any letter case; a
\* null call_type is not Code 6), in the loaded order; the loaded table is
\* what the file holds; the run goes on to the analyses iff the selection
\* is non-empty, runs none of them otherwise and all of them when it ends
C21_FireworksClassification ==
    Identified =>
        /\ fireworks_df.cols = self_df.cols
        /\ fireworks_df.rows = SelectSeq(self_df.rows, LAMBDA r : IsFireworks(r))
        /\ \A j \in 1..Len(fireworks_df.rows) : InRows(fireworks_df.rows[j], self_df.rows)
        /\ self_df = parquet
        /\ (step \notin {"stopped", "raised"}) <=> (fireworks_df.rows # <<>>)
        /\ (fireworks_df.rows = <<>>) => (analyses = <<>>)
        /\ (step = "done") => (analyses = AllAnalyses)

C21_Witness ==
    /\ step = "done" /\ analyses = AllAnalyses
    /\ Len(self_df.rows) = 2 /\ Len(fireworks_df.rows) = 1
    /\ \E i \in 1..2 :
          /\ self_df.rows[i]["call_type_code"] = Str(<<"507F">>)
          /\ self_df.rows[i]["call_type"] \in Code6Texts
    /\ \E i \in 1..2 :
          /\ self_df.rows[i]["call_type_code"] = Str(<<"507F">>)
          /\ IsNull(self_df.rows[i]["call_type"])
          /\ fireworks_df.rows[1] = self_df.rows[i]

RECURSIVE DaysBeforeMonth(_, _)
DaysBeforeMonth(y, m) ==
    IF m = 1 THEN 0 ELSE DaysInMonth(y, m - 1) + DaysBeforeMonth(y, m - 1)
\* the number of the day in the proleptic Gregorian calendar
Ordinal(y, m, d) ==
    LET p == y - 1
    IN 365 * p + (p \div 4) - (p \div 100) + (p \div 400) + DaysBeforeMonth(y, m) + d
NearHoliday(c, h) ==
    /\ c.t = "datetime"
    /\ \E yy \in {c.v[1] - 1, c.v[1], c.v[1] + 1} :
          LET gap == Ordinal(c.v[1], c.v[2], c.v[3]) - Ordinal(yy, h.month, h.day)
          IN gap >= 0 - 3 /\ gap <= 3

\* C22: the count analyze_holiday_patterns reports for a holiday is the
\* number of fireworks calls whose primary_date lies within 3 calendar days
\* of that holiday in some year, days of the adjacent month included
C22_HolidayWindow ==
    holiday_analysis # <<>> =>
        \A i \in 1..Len(holidays) :
            /\ holiday_analysis[i].name = holidays[i].name
            /\ holiday_analysis[i].calls =
                  Cardinality({j \in 1..Len(fireworks_df.rows) :
                                  NearHoliday(fireworks_df.rows[j]["primary_date"], holidays[i])})

\* the records of rows that have a later record with the same actual key
HasLaterSameKey(rows) ==
    {i \in 1..Len(rows) :
        /\ ~IsNull(KeyOf(rows[i]))
        /\ \E j \in (i + 1)..Len(rows) : KeyOf(rows[j]) = KeyOf(rows[i])}

\* C23: process_and_merge_data removes a record only when a later record
\* of the concatenation carries the same non-null incident_number: the
\* number of records it removes is the number of records with a later
\* record of the same actual key
C23_NullKeysNotCollapsed ==
    (prog = "update" /\ pc = "export") =>
        LET rows == Merged(current_data, historical_data).rows
        IN Len(rows) - Len(final_df.rows) = Cardinality(HasLaterSameKey(rows))

\* the rows with year < 2024 of a persisted table, None when there is none
BaselineOf(table) ==
    IF table = NoFile THEN NoData
    ELSE Frame(table.cols, SelectSeq(table.rows, LAMBDA r : YearBelow(r, 2024)))

\* C24: what load_historical_data feeds into the merge is the rows with
\* year < 2024 of the most recently persisted table: the file this run
\* renamed aside or, when the run found no current file, the newest backup;
\* never an older backup
C24_BaselineIsLastPersisted ==
    (prog = "update" /\ pc = "merge") =>
        /\ historical_data = BaselineOf(persisted)
        /\ pre.parquet # NoFile => historical_data = BaselineOf(pre.parquet)

C24_Witness ==
    /\ prog = "update" /\ pc = "merge"
    /\ pre.parquet = NoFile
    /\ Len(ParquetBackups) = 2
    /\ BaselineOf(ParquetBackups[1].parquet) # BaselineOf(ParquetBackups[2].parquet)
    /\ historical_data.rows # <<>>

\* the requests whose page has been appended
Appended == IF fetching = "request" THEN Len(requested) ELSE Len(requested) - 1
RECURSIVE PagesUpTo(_)
PagesUpTo(k) == IF k = 0 THEN <<>> ELSE PagesUpTo(k - 1) \o Page(remote, requested[k])
StopResponse ==
    fetching # "request" /\ (response.status = "error" \/ response.batch_data = <<>>)
Returned == fetching = "returned"
NoRequestFailed == remote.fail = 0 \/ remote.fail > Len(requested)

PaginationSafe ==
    /\ \A i \in 1..Len(requested) : requested[i] = (i - 1) * batch_size
    /\ \A i \in 1..Appended : i # remote.fail /\ Page(remote, requested[i]) # <<>>
    /\ all_data = PagesUpTo(Appended)
    /\ Returned => StopResponse
    /\ (Returned /\ remote.kind = "paged") =>
          /\ all_data = fetch_dataset(remote.rows, remote.fail)
          /\ all_data = fetch_current_dataset(remote.rows, remote.fail)
          /\ NoRequestFailed => all_data = remote.rows

\* C25: the fetch loop asks for the offsets 0, batch_size, 2*batch_size, ...
\* in that order, each once; what it has accumulated is the non-empty pages
\* it got, in that order; it returns at the first empty page or the first
\* request error and not before; without an error the result of a paged
\* source is all its records, none skipped or repeated; and if the source
\* ever answers with an empty page or an error, the loop returns
C25_Pagination == []PaginationSafe /\ (<>StopResponse => <>Returned)

C25_Witness ==
    /\ Returned /\ remote.kind = "paged" /\ remote.fail = 0
    /\ Len(remote.rows) = MaxRecords /\ all_data = remote.rows
    /\ Len(requested) >= 3 /\ response.status = "ok" /\ response.batch_data = <<>>

====
